---- MODULE Spec2Model ----
(***************************************************************************)
(* BBCode dialect of Discourse (bbcode_dialect.js): the registration       *)
(* helpers replaceBBCode, rawBBCode, replaceBBCodeParamsRaw and            *)
(* replaceBBCodeParams, the built-in tag catalog, the two block rules, and *)
(* the inline / block engine of Discourse.Dialect they register with.      *)
(*                                                                         *)
(* Text is a sequence of one-character strings.  A JsonML node is a record *)
(* [tag, attrs, children, value]; a text leaf has tag "#text".             *)
(***************************************************************************)
EXTENDS Integers, Sequences, FiniteSets, TLC

VARIABLES loaded, heap, inlineRules, blockRules, phase, fragments, doc, out, blockIn,
          blockOut

vars == <<loaded, heap, inlineRules, blockRules, phase, fragments, doc, out, blockIn, blockOut>>

\* Longest document, in fragments, that the environment types.
MaxPieces == 3

----------------------------------------------------------------------------
(* Characters and strings *)

LowerLetters ==
  <<"a","b","c","d","e","f","g","h","i","j","k","l","m",
    "n","o","p","q","r","s","t","u","v","w","x","y","z">>

UpperLetters ==
  <<"A","B","C","D","E","F","G","H","I","J","K","L","M",
    "N","O","P","Q","R","S","T","U","V","W","X","Y","Z">>

Digits == <<"0","1","2","3","4","5","6","7","8","9">>

\* String.prototype.toUpperCase on one character
UpperChar(c) ==
  IF \E k \in DOMAIN LowerLetters : LowerLetters[k] = c
  THEN UpperLetters[CHOOSE k \in DOMAIN LowerLetters : LowerLetters[k] = c]
  ELSE c

toUpperCase(s) == [k \in DOMAIN s |-> UpperChar(s[k])]

LowerChar(c) ==
  IF \E k \in DOMAIN UpperLetters : UpperLetters[k] = c
  THEN LowerLetters[CHOOSE k \in DOMAIN UpperLetters : UpperLetters[k] = c]
  ELSE c

toLowerCase(s) == [k \in DOMAIN s |-> LowerChar(s[k])]

\* The token occurs in the text at position pos (1-based).
IsPrefixAt(tok, text, pos) ==
  /\ pos >= 1
  /\ pos + Len(tok) - 1 <= Len(text)
  /\ (tok = <<>> \/ text[pos] = tok[1])
  /\ \A k \in 2..Len(tok) : text[pos + k - 1] = tok[k]

\* The least element of a set of positive numbers; 0 for the empty set.
MinOrZero(S) == IF S = {} THEN 0 ELSE CHOOSE p \in S : \A q \in S : p <= q

\* String.prototype.indexOf(tok, from), 1-based; 0 when there is none.
IndexOf(tok, text, from) == MinOrZero({p \in from..Len(text) : IsPrefixAt(tok, text, p)})

RECURSIVE Flatten(_)
Flatten(ss) == IF ss = <<>> THEN <<>> ELSE Head(ss) \o Flatten(Tail(ss))

----------------------------------------------------------------------------
(* JsonML nodes and the JavaScript conversions the emitters use *)

Text(v) == [tag |-> "#text", attrs |-> <<>>, children |-> <<>>, value |-> v]

Element(tag, attrs, children) ==
  [tag |-> tag, attrs |-> attrs, children |-> children, value |-> <<>>]

Attr(name, value) == [name |-> name, value |-> value]

IsText(n) == n.tag = "#text"

\* What an emitter is handed as `contents`: the raw string (rawContents, or
\* the second capture of the parameter pattern) or the array processInline
\* returned.
RawArg(text) == [raw |-> TRUE, text |-> text, nodes |-> <<>>]
NodesArg(nodes) == [raw |-> FALSE, text |-> <<>>, nodes |-> nodes]

\* [...].concat(contents): an array is spliced, a string is one more element.
Concat(arg) == IF arg.raw THEN <<Text(arg.text)>> ELSE arg.nodes

\* Array.prototype.toString of a JsonML array: the elements joined by ",".
RECURSIVE NodeToString(_)
RECURSIVE ArrayToString(_)
NodeToString(n) ==
  IF IsText(n) THEN n.value
  ELSE <<n.tag>>
       \o (IF n.attrs = <<>> THEN <<>> ELSE <<",", "[object Object]">>)
       \o (IF n.children = <<>> THEN <<>> ELSE <<",">> \o ArrayToString(n.children))
ArrayToString(nodes) ==
  IF nodes = <<>> THEN <<>>
  ELSE IF Len(nodes) = 1 THEN NodeToString(nodes[1])
  ELSE NodeToString(nodes[1]) \o <<",">> \o ArrayToString(Tail(nodes))

\* "..." + contents
ToStr(arg) == IF arg.raw THEN arg.text ELSE ArrayToString(arg.nodes)

IsWhite(c) == c \in {" ", "\t", "\n", "\r"}
IsDigit(c) == \E k \in DOMAIN Digits : Digits[k] = c
DigitValue(c) == (CHOOSE k \in DOMAIN Digits : Digits[k] = c) - 1

RECURSIVE DigitsValue(_, _, _)
DigitsValue(s, from, to) ==
  IF to < from THEN 0 ELSE 10 * DigitsValue(s, from, to - 1) + DigitValue(s[to])

\* The digits of s from position j on, read as a number: NaN when there is
\* none.
ParseDigits(s, j, negative) ==
  IF j > Len(s) \/ ~IsDigit(s[j]) THEN [nan |-> TRUE, value |-> 0]
  ELSE [nan |-> FALSE,
        value |-> (IF negative THEN -1 ELSE 1)
                  * DigitsValue(s, j, MinOrZero({e \in j..Len(s) :
                                                   e = Len(s) \/ ~IsDigit(s[e + 1])}))]

\* The sign at position i, then the digits.
ParseSigned(s, i) ==
  IF i <= Len(s) /\ s[i] \in {"+", "-"} THEN ParseDigits(s, i + 1, s[i] = "-")
  ELSE ParseDigits(s, i, FALSE)

\* parseInt(s, 10): leading white space is skipped.
parseInt(s) ==
  IF \A k \in 1..Len(s) : IsWhite(s[k]) THEN [nan |-> TRUE, value |-> 0]
  ELSE ParseSigned(s, MinOrZero({k \in 1..Len(s) : ~IsWhite(s[k])}))

RECURSIVE NatToString(_)
NatToString(n) ==
  IF n < 10 THEN <<Digits[n + 1]>> ELSE NatToString(n \div 10) \o <<Digits[(n % 10) + 1]>>

\* "..." + n for an integer n
NumberToString(n) == IF n < 0 THEN <<"-">> \o NatToString(0 - n) ELSE NatToString(n)

\* /<img/i.test(contents)
HasImgTag(text) ==
  \E p \in 1..Len(text) : IsPrefixAt(<<"<", "i", "m", "g">>, toLowerCase(text), p)

\* String.prototype.split(/\n/)
RECURSIVE SplitAt(_, _)
SplitAt(text, p) ==
  IF p = 0 THEN <<text>>
  ELSE <<SubSeq(text, 1, p - 1)>>
       \o SplitAt(SubSeq(text, p + 1, Len(text)),
                  IndexOf(<<"\n">>, SubSeq(text, p + 1, Len(text)), 1))

Split(text) == SplitAt(text, IndexOf(<<"\n">>, text, 1))

\* Array.prototype.join("\n")
RECURSIVE Join(_)
Join(lines) ==
  IF lines = <<>> THEN <<>>
  ELSE IF Len(lines) = 1 THEN lines[1]
  ELSE lines[1] \o <<"\n">> \o Join(Tail(lines))

----------------------------------------------------------------------------
(* The user emitters of the catalog, by the line that writes them *)

DataBBCode == Attr("data-bbcode", <<"true">>)

SepQuote(label, children) ==
  Element("div", <<Attr("class", <<"sepquote">>)>>,
          <<Element("span", <<Attr("class", <<"smallfont">>)>>, <<Text(<<label>>)>>),
            Element("br", <<>>, <<>>), Element("br", <<>>, <<>>)>> \o children)

\* n || 1
OrOne(n) == IF n.nan \/ n.value = 0 THEN 1 ELSE n.value

PhpLookup == "http://www.php.net/manual-lookup.php?function="

\* The JsonML the user function written at em.line returns, as the node list
\* it contributes; children is [].concat(contents), str is "" + contents.
JsonML(em, param, children, str) ==
  CASE em.line = 75 -> <<Element("span", <<Attr("class", <<"bbcode-b">>)>>, children)>>
    [] em.line = 76 -> <<Element("span", <<Attr("class", <<"bbcode-i">>)>>, children)>>
    [] em.line = 77 -> <<Element("span", <<Attr("class", <<"bbcode-u">>)>>, children)>>
    [] em.line = 78 -> <<Element("span", <<Attr("class", <<"bbcode-s">>)>>, children)>>
    [] em.line = 80 -> <<Element("ul", <<>>, children)>>
    [] em.line = 81 -> <<Element("ol", <<>>, children)>>
    [] em.line = 82 -> <<Element("li", <<>>, children)>>
    [] em.line = 84 -> <<Element("img", <<Attr("href", str)>>, <<>>)>>
    [] em.line = 85 ->
         <<Element("a", <<Attr("href", <<"mailto:">> \o str), DataBBCode>>, children)>>
    [] em.line = 86 -> <<Element("a", <<Attr("href", str), DataBBCode>>, children)>>
    [] em.line = 87 ->
         <<Element(IF HasImgTag(str) THEN "div" ELSE "span",
                   <<Attr("class", <<"spoiler">>)>>, children)>>
    [] em.line = 95 -> <<Element("a", <<Attr("href", param), DataBBCode>>, children)>>
    [] em.line = 99 ->
         <<Element("a", <<Attr("href", <<"mailto:">> \o param), DataBBCode>>, children)>>
    [] em.line = 103 ->
         <<Element("span",
                   <<Attr("class", <<"bbcode-size-">> \o NumberToString(OrOne(parseInt(param))))>>,
                   children)>>
    [] em.line = 120 -> <<Element("font", <<Attr("color", param)>>, children)>>
    [] em.line = 124 -> <<Element("font", <<Attr("size", param)>>, children)>>
    [] em.line = 128 -> <<Element("font", <<Attr("face", param)>>, children)>>
    [] em.line = 132 ->
         <<Element("span", <<Attr("style", <<"font-size:x-small">>)>>, children)>>
    [] em.line = 134 -> <<Element("span", <<Attr("class", <<"highlight">>)>>, children)>>
    [] em.line = 137 ->
         <<Element("div", <<Attr("style", <<"text-align:">> \o em.cap)>>, children)>>
    [] em.line = 140 -> children
    [] em.line = 142 -> <<Element("a", <<Attr("name", param), DataBBCode>>, children)>>
    [] em.line = 146 ->
         <<Element("a", <<Attr("href", <<PhpLookup>> \o str), DataBBCode>>, children)>>
    [] em.line = 147 ->
         <<Element("a", <<Attr("href", <<PhpLookup>> \o param), DataBBCode>>, children)>>
    [] em.line = 151 ->
         <<Element("a", <<Attr("href", <<"http://www.google.com/search?q=">> \o str),
                          DataBBCode>>, children)>>
    [] em.line = 153 -> <<Element("a", <<Attr("href", <<"#">> \o param), DataBBCode>>, children)>>
    [] em.line = 157 -> <<SepQuote("Edit:", children)>>
    [] em.line = 158 -> <<SepQuote("Off Topic:", children)>>
    [] em.line = 160 -> <<Element("blockquote", <<>>, <<Element("div", <<>>, children)>>)>>
    [] em.line = 162 ->
         <<Element("div",
                   <<Attr("style", <<"margin: 6px 0; height: 0; border-top: 1px solid ">>
                                   \o str \o <<"; margin: auto; width: ">> \o param)>>,
                   <<>>)>>

\* emitter(contents) or emitter(param, contents)
UserEmitter(em, param, arg) == JsonML(em, param, Concat(arg), ToStr(arg))

----------------------------------------------------------------------------
(* The parameter pattern of replaceBBCodeParamsRaw *)

IsQuote(c) == c \in {"\"", "'"}

\* What "." matches: anything but a line terminator.
IsDot(c) == c \notin {"\n", "\r"}

\* One way for /^["']?(.+?)["']?\](.*)$/ to match s: lead (0 or 1) leading
\* quote characters, a first group of `size` characters, trail (0 or 1)
\* trailing quote characters, the "]", and the rest up to the end.
RegexpFits(s, lead, size, trail) ==
  /\ lead + size + trail + 1 <= Len(s)
  /\ (lead = 1 => IsQuote(s[1]))
  /\ \A k \in (lead + 1)..(lead + size) : IsDot(s[k])
  /\ (trail = 1 => IsQuote(s[lead + size + 1]))
  /\ s[lead + size + trail + 1] = "]"
  /\ \A k \in (lead + size + trail + 2)..Len(s) : IsDot(s[k])

\* The sizes of the first group with which the pattern matches.
RegexpSizes(s, lead) ==
  {size \in 1..Len(s) : RegexpFits(s, lead, size, 1) \/ RegexpFits(s, lead, size, 0)}

\* The captures, given how the pattern matched.
RegexpCaptures(s, lead, size, trail) ==
  [matched |-> TRUE,
   param |-> SubSeq(s, lead + 1, lead + size),
   contents |-> SubSeq(s, lead + size + trail + 2, Len(s))]

\* The first group is lazy: the shortest size is taken; the trailing quote
\* is greedy: it is taken when the pattern matches with it.
RegexpShortest(s, lead, size) ==
  RegexpCaptures(s, lead, size, IF RegexpFits(s, lead, size, 1) THEN 1 ELSE 0)

\* The match without the leading quote, if there is one.
RegexpUnquoted(s, sizes) ==
  IF sizes = {} THEN [matched |-> FALSE, param |-> <<>>, contents |-> <<>>]
  ELSE RegexpShortest(s, 0, MinOrZero(sizes))

\* The leading quote is greedy: it is taken when the pattern matches with it.
RegexpQuoted(s, sizes) ==
  IF sizes = {} THEN RegexpUnquoted(s, RegexpSizes(s, 0))
  ELSE RegexpShortest(s, 1, MinOrZero(sizes))

\* The pattern with its "]" optional: a span without one is all param.
ParamRegexpOptionalBracket(s) ==
  IF \E k \in 1..Len(s) : s[k] = "]" THEN RegexpQuoted(s, RegexpSizes(s, 1))
  ELSE [matched |-> s # <<>>, param |-> s, contents |-> <<>>]

\* /^["']?(.+?)["']?\](.*)$/.exec(s): m[1] is param, m[2] is contents.
ParamRegexp(s) == RegexpQuoted(s, RegexpSizes(s, 1))

----------------------------------------------------------------------------
(* The tag catalog: the top-level statements of the file, in file order *)

Reg(fn, tag, line) == [fn |-> fn, tag |-> tag, line |-> line, cap |-> <<>>]

\* The catalog with the two registrations of size in the other order.
CatalogSizeSwapped ==
  << Reg("replaceBBCode", <<"b">>, 75),
     Reg("replaceBBCode", <<"i">>, 76),
     Reg("replaceBBCode", <<"u">>, 77),
     Reg("replaceBBCode", <<"s">>, 78),
     Reg("replaceBBCode", <<"u","l">>, 80),
     Reg("replaceBBCode", <<"o","l">>, 81),
     Reg("replaceBBCode", <<"l","i">>, 82),
     Reg("rawBBCode", <<"i","m","g">>, 84),
     Reg("rawBBCode", <<"e","m","a","i","l">>, 85),
     Reg("rawBBCode", <<"u","r","l">>, 86),
     Reg("rawBBCode", <<"s","p","o","i","l","e","r">>, 87),
     Reg("replaceBBCodeParams", <<"u","r","l">>, 95),
     Reg("replaceBBCodeParams", <<"e","m","a","i","l">>, 99),
     Reg("replaceBBCodeParams", <<"s","i","z","e">>, 124),
     Reg("replaceBlock", <<"c","o","d","e">>, 108),
     Reg("replaceBBCodeParams", <<"c","o","l","o","r">>, 120),
     Reg("replaceBBCodeParams", <<"s","i","z","e">>, 103),
     Reg("replaceBBCodeParams", <<"f","o","n","t">>, 128),
     Reg("replaceBBCode", <<"s","m","a","l","l">>, 132),
     Reg("replaceBBCode", <<"h","i","g","h","l","i","g","h","t">>, 134),
     [Reg("replaceBBCode", <<"l","e","f","t">>, 137) EXCEPT !.cap = <<"left">>],
     [Reg("replaceBBCode", <<"c","e","n","t","e","r">>, 137) EXCEPT !.cap = <<"center">>],
     [Reg("replaceBBCode", <<"r","i","g","h","t">>, 137) EXCEPT !.cap = <<"right">>],
     Reg("rawBBCode", <<"n","o","p","a","r","s","e">>, 140),
     Reg("replaceBBCodeParams", <<"a","n","a","m","e">>, 142),
     Reg("rawBBCode", <<"f","p","h","p">>, 146),
     Reg("replaceBBCodeParamsRaw", <<"f","p","h","p">>, 147),
     Reg("rawBBCode", <<"g","o","o","g","l","e">>, 151),
     Reg("replaceBBCodeParams", <<"j","u","m","p","t","o">>, 153),
     Reg("replaceBBCode", <<"e","d","i","t">>, 157),
     Reg("replaceBBCode", <<"o","t">>, 158),
     Reg("replaceBBCode", <<"i","n","d","e","n","t">>, 160),
     Reg("replaceBBCodeParams", <<"r","u","l","e">>, 162),
     Reg("replaceBlock", <<"l","i","s","t">>, 167) >>

Catalog ==
  << Reg("replaceBBCode", <<"b">>, 75),
     Reg("replaceBBCode", <<"i">>, 76),
     Reg("replaceBBCode", <<"u">>, 77),
     Reg("replaceBBCode", <<"s">>, 78),
     Reg("replaceBBCode", <<"u","l">>, 80),
     Reg("replaceBBCode", <<"o","l">>, 81),
     Reg("replaceBBCode", <<"l","i">>, 82),
     Reg("rawBBCode", <<"i","m","g">>, 84),
     Reg("rawBBCode", <<"e","m","a","i","l">>, 85),
     Reg("rawBBCode", <<"u","r","l">>, 86),
     Reg("rawBBCode", <<"s","p","o","i","l","e","r">>, 87),
     Reg("replaceBBCodeParams", <<"u","r","l">>, 95),
     Reg("replaceBBCodeParams", <<"e","m","a","i","l">>, 99),
     Reg("replaceBBCodeParams", <<"s","i","z","e">>, 103),
     Reg("replaceBlock", <<"c","o","d","e">>, 108),
     Reg("replaceBBCodeParams", <<"c","o","l","o","r">>, 120),
     Reg("replaceBBCodeParams", <<"s","i","z","e">>, 124),
     Reg("replaceBBCodeParams", <<"f","o","n","t">>, 128),
     Reg("replaceBBCode", <<"s","m","a","l","l">>, 132),
     Reg("replaceBBCode", <<"h","i","g","h","l","i","g","h","t">>, 134),
     [Reg("replaceBBCode", <<"l","e","f","t">>, 137) EXCEPT !.cap = <<"left">>],
     [Reg("replaceBBCode", <<"c","e","n","t","e","r">>, 137) EXCEPT !.cap = <<"center">>],
     [Reg("replaceBBCode", <<"r","i","g","h","t">>, 137) EXCEPT !.cap = <<"right">>],
     Reg("rawBBCode", <<"n","o","p","a","r","s","e">>, 140),
     Reg("replaceBBCodeParams", <<"a","n","a","m","e">>, 142),
     Reg("rawBBCode", <<"f","p","h","p">>, 146),
     Reg("replaceBBCodeParamsRaw", <<"f","p","h","p">>, 147),
     Reg("rawBBCode", <<"g","o","o","g","l","e">>, 151),
     Reg("replaceBBCodeParams", <<"j","u","m","p","t","o">>, 153),
     Reg("replaceBBCode", <<"e","d","i","t">>, 157),
     Reg("replaceBBCode", <<"o","t">>, 158),
     Reg("replaceBBCode", <<"i","n","d","e","n","t">>, 160),
     Reg("replaceBBCodeParams", <<"r","u","l","e">>, 162),
     Reg("replaceBlock", <<"l","i","s","t">>, 167) >>

----------------------------------------------------------------------------
(* Registration *)

\* An emitter function value: the user function written at `line` (with the
\* variable it closes over), wrapped or not by the synthetic parameter
\* emitter of replaceBBCodeParamsRaw and by the processInline closure of
\* replaceBBCodeParams.
Emitter(line, cap, synthetic, recursive) ==
  [line |-> line, cap |-> cap, synthetic |-> synthetic, recursive |-> recursive]

\* Discourse.Dialect.inlineBetween(args): the rule keeps the tokens as they
\* are at the call, and the options object itself.
inlineBetween(rules, obj, args) ==
  Append(rules, [start |-> obj.start, stop |-> obj.stop, args |-> args])

\* _.merge(opts, {start: ..., stop: ...}) writes into opts and returns opts.
MergeTokens(obj, start, stop) == [obj EXCEPT !.start = start, !.stop = stop]

\* The start token written without its closing bracket.
StartTokenOpen(tag) == <<"[">> \o tag

StartToken(tag) == <<"[">> \o tag \o <<"]">>

\* The stop token written without its slash.
StopTokenNoSlash(tag) == <<"[">> \o tag \o <<"]">>

StopToken(tag) == <<"[", "/">> \o tag \o <<"]">>

ParamStartToken(tag) == <<"[">> \o tag \o <<"=">>

\* replaceBBCode without the toUpperCase() of the second registration.
RegisterBBCodeSameCase(e, raw) ==
  LET id == Len(heap) + 1
      o0 == [start |-> <<>>, stop |-> <<>>, rawContents |-> raw,
             emitter |-> Emitter(e.line, e.cap, FALSE, FALSE)]
      o1 == MergeTokens(o0, StartToken(e.tag), StopToken(e.tag))
      r1 == inlineBetween(inlineRules, o1, id)
      r2 == inlineBetween(r1, o1, id)
  IN /\ heap' = Append(heap, o1)
     /\ inlineRules' = r2

\* replaceBBCode(tag, emitter, opts) with opts.rawContents = raw: one options
\* object, merged and registered twice.
RegisterBBCode(e, raw) ==
  LET id == Len(heap) + 1
      o0 == [start |-> <<>>, stop |-> <<>>, rawContents |-> raw,
             emitter |-> Emitter(e.line, e.cap, FALSE, FALSE)]
      o1 == MergeTokens(o0, StartToken(e.tag), StopToken(e.tag))
      r1 == inlineBetween(inlineRules, o1, id)
      up == toUpperCase(e.tag)
      o2 == MergeTokens(o1, StartToken(up), StopToken(up))
      r2 == inlineBetween(r1, o2, id)
  IN /\ heap' = Append(heap, o2)
     /\ inlineRules' = r2

\* replaceBBCodeParamsRaw(tag, emitter); recursive is TRUE when the emitter
\* is the closure replaceBBCodeParams passes.
RegisterParams(e, recursive) ==
  LET id == Len(heap) + 1
      o0 == [start |-> <<>>, stop |-> <<>>, rawContents |-> TRUE,
             emitter |-> Emitter(e.line, e.cap, TRUE, recursive)]
      o1 == MergeTokens(o0, ParamStartToken(e.tag), StopToken(e.tag))
      r1 == inlineBetween(inlineRules, o1, id)
      up == toUpperCase(e.tag)
      o2 == MergeTokens(o1, ParamStartToken(up), StopToken(up))
      r2 == inlineBetween(r1, o2, id)
  IN /\ heap' = Append(heap, o2)
     /\ inlineRules' = r2

----------------------------------------------------------------------------
(* The inline engine: inlineBetween's matcher and processInline.  A result *)
(* is the node list together with a record of what was called: every       *)
(* emitter call and every re-entry of processInline, with its nesting      *)
(* depth.                                                                  *)

NoResult == [nodes |-> <<>>, calls |-> <<>>, reentries |-> <<>>]

\* Adjacent literal text is one text leaf.
AddNodes(a, b) ==
  IF a # <<>> /\ b # <<>> /\ IsText(a[Len(a)]) /\ IsText(b[1])
  THEN SubSeq(a, 1, Len(a) - 1) \o <<Text(a[Len(a)].value \o b[1].value)>> \o Tail(b)
  ELSE a \o b

Literal(text, from, to) == IF to < from THEN <<>> ELSE <<Text(SubSeq(text, from, to))>>

\* The record of a nested processInline call, one level deeper.
Deeper(r) ==
  [r EXCEPT !.calls = [k \in DOMAIN r.calls |-> [r.calls[k] EXCEPT !.depth = @ + 1]],
            !.reentries = [k \in DOMAIN r.reentries |->
                             [r.reentries[k] EXCEPT !.depth = @ + 1]]]

Reentry(by, parent, child) ==
  [by |-> by, parent |-> parent, child |-> child, depth |-> 0]

\* The first registered rule whose start token is at pos; 0 when none is.
FirstRule(text, pos) ==
  MinOrZero({i \in DOMAIN inlineRules : IsPrefixAt(inlineRules[i].start, text, pos)})

RECURSIVE processInline(_)
RECURSIVE Scan(_, _, _)

\* What a call of opts.emitter came to: whether it returned JsonML, whether
\* the user function ran and with what, and the record of the processInline
\* call it made, if any.
Returned(em, param, arg, reentered, sub, inner) ==
  [emitted |-> TRUE, user |-> TRUE, param |-> param, arg |-> arg,
   nodes |-> UserEmitter(em, param, arg),
   reentered |-> reentered, sub |-> sub, inner |-> inner]

ReturnedUndefined ==
  [emitted |-> FALSE, user |-> FALSE, param |-> <<>>, arg |-> RawArg(<<>>),
   nodes |-> <<>>, reentered |-> FALSE, sub |-> 0, inner |-> NoResult]

\* The closure replaceBBCodeParams passes as the emitter:
\* emitter(param, this.processInline(contents)).
ParamsClosure(em, m, inner) ==
  Returned(em, m.param, NodesArg(inner.nodes), TRUE, Len(m.contents), inner)

\* The synthetic emitter of replaceBBCodeParamsRaw, m being the result of
\* the pattern: if (m) { return emitter.call(this, m[1], m[2]); }
SyntheticEmitter(em, m) ==
  IF ~m.matched THEN ReturnedUndefined
  ELSE IF em.recursive THEN ParamsClosure(em, m, processInline(m.contents))
  ELSE Returned(em, m.param, RawArg(m.contents), FALSE, 0, NoResult)

\* opts.emitter.call(this, contents)
CallEmitter(em, arg) ==
  IF em.synthetic THEN SyntheticEmitter(em, ParamRegexp(ToStr(arg)))
  ELSE Returned(em, <<>>, arg, FALSE, 0, NoResult)

\* The outcome of rule i at pos, its span being `between`, processed into
\* `own` unless the rule is raw, and its emitter having come to e.
Matched(i, text, pos, next, between, raw, own, e) ==
  [status |-> IF e.emitted THEN "emitted" ELSE "declined",
   next |-> next,
   nodes |-> e.nodes,
   calls |-> <<[rule |-> i, depth |-> 0, text |-> text, from |-> pos, to |-> next,
                span |-> between, emitted |-> e.emitted, user |-> e.user,
                param |-> e.param, arg |-> e.arg]>>
             \o Deeper(own).calls \o Deeper(e.inner).calls,
   reentries |->
     (IF raw THEN <<>>
      ELSE <<Reentry("inlineBetween", Len(text), Len(between))>> \o Deeper(own).reentries)
     \o (IF e.reentered
         THEN <<Reentry("replaceBBCodeParams", Len(text), e.sub)>> \o Deeper(e.inner).reentries
         ELSE <<>>)]

\* The span is processed, and the emitter called with the result.
MatchProcessed(opts, i, text, pos, next, between, own) ==
  Matched(i, text, pos, next, between, FALSE, own,
          CallEmitter(opts.emitter, NodesArg(own.nodes)))

\* The span is processed unless the rule is raw.
MatchSpan(opts, i, text, pos, next, between) ==
  IF opts.rawContents
  THEN Matched(i, text, pos, next, between, TRUE, NoResult,
               CallEmitter(opts.emitter, RawArg(between)))
  ELSE MatchProcessed(opts, i, text, pos, next, between, processInline(between))

\* The stop token is at endPos, or nowhere (0).
MatchStop(rule, i, text, pos, endPos) ==
  IF endPos = 0
  THEN [status |-> "nostop", next |-> pos + 1, nodes |-> <<>>,
        calls |-> <<>>, reentries |-> <<>>]
  ELSE MatchSpan(heap[rule.args], i, text, pos, endPos + Len(rule.stop),
                 SubSeq(text, pos + Len(rule.start), endPos - 1))

\* Rule i at pos, where its start token is: find the stop token, process the
\* span unless the rule is raw, call the emitter.
MatchRule(i, text, pos) ==
  MatchStop(inlineRules[i], i, text, pos,
            IndexOf(inlineRules[i].stop, text, pos + Len(inlineRules[i].start)))

\* The output of a match, the text before it, and the rest of the scan.
Spliced(m, before, rest) ==
  [nodes |-> AddNodes(before, rest.nodes),
   calls |-> m.calls \o rest.calls,
   reentries |-> m.reentries \o rest.reentries]

\* After rule matching at pos came to m: without a stop token the scan moves
\* on by one character; a match replaces start..stop and the scan resumes
\* after it; when the emitter returned nothing the matched text stays
\* literal text.
ScanMatch(text, pos, lit, m) ==
  IF m.status = "nostop" THEN Scan(text, pos + 1, lit)
  ELSE IF m.status = "declined" THEN Spliced(m, <<>>, Scan(text, m.next, lit))
  ELSE Spliced(m, AddNodes(Literal(text, lit, pos - 1), m.nodes),
               Scan(text, m.next, m.next))

ScanRule(text, pos, lit, i) ==
  IF i = 0 THEN Scan(text, pos + 1, lit)
  ELSE ScanMatch(text, pos, lit, MatchRule(i, text, pos))

\* The scan from pos, with the literal text not yet emitted starting at lit.
Scan(text, pos, lit) ==
  IF pos > Len(text)
  THEN [nodes |-> Literal(text, lit, Len(text)), calls |-> <<>>, reentries |-> <<>>]
  ELSE ScanRule(text, pos, lit, FirstRule(text, pos))

processInline(text) == Scan(text, 1, 1)

----------------------------------------------------------------------------
(* The block emitters *)

\* if (v) on a JavaScript value: an array is always true, a string when it
\* is not empty.
Truthy(arg) == IF arg.raw THEN arg.text # <<>> ELSE TRUE

ListMarker == <<"[", "*", "]">>

\* line.slice(0)
ListRemainderWhole(line) == SubSeq(line, 1, Len(line))

\* line.slice(3)
ListRemainder(line) == SubSeq(line, 4, Len(line))

\* var li = self.processInline(line.slice(3));
\* if (li) { contents.push(["li"].concat(li)); }
ListPush(line, remainder, li, rest) ==
  [nodes |-> (IF Truthy(NodesArg(li.nodes))
              THEN <<Element("li", <<>>, Concat(NodesArg(li.nodes)))>> ELSE <<>>)
             \o rest.nodes,
   calls |-> Deeper(li).calls \o rest.calls,
   reentries |-> <<Reentry("list", Len(line), Len(remainder))>>
                 \o Deeper(li).reentries \o rest.reentries]

\* if (line.indexOf("[*]") === 0) { ... }
ListLine(line, remainder, rest) ==
  IF IndexOf(ListMarker, line, 1) = 1
  THEN ListPush(line, remainder, processInline(remainder), rest)
  ELSE rest

\* lines.forEach(function(line) { ... })
RECURSIVE ListItems(_)
ListItems(lines) ==
  IF lines = <<>> THEN NoResult
  ELSE ListLine(Head(lines), ListRemainder(Head(lines)), ListItems(Tail(lines)))

\* blockContents.forEach(function(bc) { var lines = bc.split(/\n/); ... })
RECURSIVE SubLines(_)
SubLines(blockContents) ==
  IF blockContents = <<>> THEN <<>>
  ELSE Split(Head(blockContents)) \o SubLines(Tail(blockContents))

\* var contents = matches[1] ? ["ol", { "type": matches[1] }] : ["ul"];
ListNode(listType, items) ==
  [nodes |-> <<IF Truthy(RawArg(listType))
               THEN Element("ol", <<Attr("type", listType)>>, items.nodes)
               ELSE Element("ul", <<>>, items.nodes)>>,
   calls |-> items.calls, reentries |-> items.reentries]

\* The emitter of the [list] block rule; listType is matches[1], <<>> when
\* the group captured nothing.
ListEmitter(blockContents, listType) ==
  ListNode(listType, ListItems(SubLines(blockContents)))

\* The emitter of the [code] block rule
CodeEmitter(blockContents) ==
  [nodes |-> <<Element("p", <<>>, <<Element("pre", <<>>, <<Text(Join(blockContents))>>)>>)>>,
   calls |-> <<>>, reentries |-> <<>>]

----------------------------------------------------------------------------
(* The documents the environment types, fragment by fragment *)

OpenB == <<"[", "b", "]">>
CloseB == <<"[", "/", "b", "]">>
OpenI == <<"[", "i", "]">>
CloseI == <<"[", "/", "i", "]">>
OpenNoparse == <<"[", "n", "o", "p", "a", "r", "s", "e", "]">>
CloseNoparse == <<"[", "/", "n", "o", "p", "a", "r", "s", "e", "]">>
OpenUrlParam == <<"[", "u", "r", "l", "=">>
CloseUrl == <<"[", "/", "u", "r", "l", "]">>
OpenSizeParam == <<"[", "s", "i", "z", "e", "=">>
CloseSize == <<"[", "/", "s", "i", "z", "e", "]">>
And == <<" ", "a", "n", "d", " ">>
ExampleUrl ==
  <<"h", "t", "t", "p", ":", "/", "/", "e", "x", "a", "m", "p", "l", "e", ".", "c", "o", "m">>
Click == <<"c", "l", "i", "c", "k">>

\* Nested and unterminated plain tags.
NestingFragments ==
  { OpenB, CloseB, OpenI, CloseI, <<"x">>, OpenI \o <<"x">> \o CloseI }

\* Several tags side by side.
SiblingFragments ==
  { OpenB \o <<"a">> \o CloseB, And, OpenB \o <<"c">> \o CloseB, OpenB, CloseB, <<"c">> }

\* Raw tags around markup.
RawFragments ==
  { OpenNoparse, CloseNoparse, OpenB \o <<"x">> \o CloseB,
    <<"[", "i", "m", "g", "]">>, <<"[", "/", "i", "m", "g", "]">>,
    <<"[", "f", "p", "h", "p", "=", "f", "]">>, <<"[", "/", "f", "p", "h", "p", "]">> }

\* Parameter syntax: brackets, quotes, line breaks.
ParamFragments ==
  { OpenUrlParam, CloseUrl, <<"a", "]">>, <<"]", "x">>, <<"\"", "a", "\"", "]", "x">>,
    <<"a", "]", "x", "\n", "y">>, <<"a">>, ExampleUrl \o <<"]">> \o Click }

SizeFragments ==
  { OpenSizeParam, CloseSize, <<"3", "]", "x">>, <<"x">>,
    <<"[", "S", "I", "Z", "E", "=">>, <<"[", "/", "S", "I", "Z", "E", "]">> }

\* The inline registrations of the catalog, and the tokens each one is
\* written with in a document, in lower and in upper case.
InlineEntries == {k \in DOMAIN Catalog : Catalog[k].fn # "replaceBlock"}

IsParamEntry(e) == e.fn \in {"replaceBBCodeParamsRaw", "replaceBBCodeParams"}

Opening(e, name) == <<"[">> \o name \o (IF IsParamEntry(e) THEN <<"=">> ELSE <<"]">>)
Closing(name) == <<"[", "/">> \o name \o <<"]">>

OpenLower(e) == Opening(e, e.tag)
OpenUpper(e) == Opening(e, toUpperCase(e.tag))
CloseLower(e) == Closing(e.tag)
CloseUpper(e) == Closing(toUpperCase(e.tag))

\* One tag in upper case, around its closing token in both spellings.
CaseFragments(e) == { OpenUpper(e), CloseLower(e), CloseUpper(e), <<"x", "]">> }

\* The contents of a [list] block.
ListFragments ==
  { ListMarker, <<"\n">>, ListMarker \o <<"o", "n", "e">>, ListMarker \o <<"t", "w", "o">>,
    <<"x">>, OpenB \o <<"y">> \o CloseB }

Alphabets ==
  { NestingFragments, SiblingFragments, RawFragments, ParamFragments, SizeFragments,
    ListFragments }
  \cup { CaseFragments(Catalog[k]) : k \in InlineEntries }

\* matches[1] of the [list] start pattern: nothing, or one word character.
ListTypes == { <<>>, <<"1">> }

NextEntry == Catalog[loaded + 1]

Loading == phase = "load" /\ loaded < Len(Catalog)

Advance ==
  /\ loaded' = loaded + 1
  /\ phase' = IF loaded + 1 = Len(Catalog) THEN "ready" ELSE "load"
  /\ UNCHANGED <<fragments, doc, out, blockIn, blockOut>>

replaceBBCode ==
  /\ Loading
  /\ NextEntry.fn = "replaceBBCode"
  /\ RegisterBBCode(NextEntry, FALSE)
  /\ Advance
  /\ UNCHANGED blockRules

\* rawBBCode without rawContents: true.
rawBBCodeProcessed ==
  /\ Loading
  /\ NextEntry.fn = "rawBBCode"
  /\ RegisterBBCode(NextEntry, FALSE)
  /\ Advance
  /\ UNCHANGED blockRules

rawBBCode ==
  /\ Loading
  /\ NextEntry.fn = "rawBBCode"
  /\ RegisterBBCode(NextEntry, TRUE)
  /\ Advance
  /\ UNCHANGED blockRules

replaceBBCodeParamsRaw ==
  /\ Loading
  /\ NextEntry.fn = "replaceBBCodeParamsRaw"
  /\ RegisterParams(NextEntry, FALSE)
  /\ Advance
  /\ UNCHANGED blockRules

replaceBBCodeParams ==
  /\ Loading
  /\ NextEntry.fn = "replaceBBCodeParams"
  /\ RegisterParams(NextEntry, TRUE)
  /\ Advance
  /\ UNCHANGED blockRules

\* Discourse.Dialect.replaceBlock({start, stop, emitter})
replaceBlock ==
  /\ Loading
  /\ NextEntry.fn = "replaceBlock"
  /\ blockRules' = Append(blockRules, [name |-> NextEntry.tag, line |-> NextEntry.line])
  /\ Advance
  /\ UNCHANGED <<heap, inlineRules>>

\* The environment starts a document, typed from one set of fragments.
Begin ==
  /\ phase = "ready"
  /\ phase' = "typing"
  /\ fragments' \in Alphabets
  /\ UNCHANGED <<loaded, heap, inlineRules, blockRules, doc, out, blockIn, blockOut>>

\* The environment types one more fragment of the document.
Type ==
  /\ phase = "typing"
  /\ Len(doc) < MaxPieces
  /\ \E p \in fragments : doc' = Append(doc, p)
  /\ UNCHANGED <<loaded, heap, inlineRules, blockRules, phase, fragments, out, blockIn,
                 blockOut>>

\* A matching pass: processInline on the document.
Render ==
  /\ phase = "typing"
  /\ out' = processInline(Flatten(doc))
  /\ phase' = "inline"
  /\ UNCHANGED <<loaded, heap, inlineRules, blockRules, fragments, doc, blockIn, blockOut>>

\* The lines the block matcher accumulated: the document as one entry, or
\* cut in two after its k-th fragment.
Accumulated(k) ==
  IF doc = <<>> THEN <<>>
  ELSE IF k = 0 THEN <<Flatten(doc)>>
  ELSE <<Flatten(SubSeq(doc, 1, k)), Flatten(SubSeq(doc, k + 1, Len(doc)))>>

\* The block matcher calls the emitter of a block rule.
EmitBlock ==
  /\ phase = "typing"
  /\ fragments = ListFragments
  /\ \E r \in DOMAIN blockRules : \E k \in 0..(Len(doc) - 1) :
     \E t \in (IF blockRules[r].line = 167 THEN ListTypes ELSE {<<>>}) :
       /\ blockIn' = [rule |-> blockRules[r].line, contents |-> Accumulated(k),
                      listType |-> t]
       /\ blockOut' = IF blockRules[r].line = 167
                      THEN ListEmitter(Accumulated(k), t)
                      ELSE CodeEmitter(Accumulated(k))
  /\ phase' = "block"
  /\ UNCHANGED <<loaded, heap, inlineRules, blockRules, fragments, doc, out>>

NoBlock == [rule |-> 0, contents |-> <<>>, listType |-> <<>>]

\* The pass is over; the engine is ready for the next document.
NewDocument ==
  /\ phase \in {"inline", "block"}
  /\ phase' = "ready"
  /\ fragments' = {}
  /\ doc' = <<>>
  /\ out' = NoResult
  /\ blockIn' = NoBlock
  /\ blockOut' = NoResult
  /\ UNCHANGED <<loaded, heap, inlineRules, blockRules>>

Init ==
  /\ loaded = 0
  /\ heap = <<>>
  /\ inlineRules = <<>>
  /\ blockRules = <<>>
  /\ phase = "load"
  /\ fragments = {}
  /\ doc = <<>>
  /\ out = NoResult
  /\ blockIn = NoBlock
  /\ blockOut = NoResult

Next ==
  \/ replaceBBCode
  \/ rawBBCode
  \/ replaceBBCodeParamsRaw
  \/ replaceBBCodeParams
  \/ replaceBlock
  \/ Begin
  \/ Type
  \/ Render
  \/ EmitBlock
  \/ NewDocument

Spec == Init /\ [][Next]_vars

----------------------------------------------------------------------------
(* Properties *)

\* The text of the document.
TypedText == Flatten(doc)

Occurs(tok, text) == \E p \in 1..Len(text) : IsPrefixAt(tok, text, p)
OccursFrom(tok, text, from) == \E p \in from..Len(text) : IsPrefixAt(tok, text, p)

\* Every inline registration adds two rules: rule i comes from the
\* ((i + 1) \div 2)-th inline entry of the catalog, in lower case when i is
\* odd and in upper case when it is even.
InlineOrder(k) == Cardinality({j \in InlineEntries : j <= k})
EntryOf(i) == Catalog[CHOOSE k \in InlineEntries : InlineOrder(k) = (i + 1) \div 2]
WrittenName(i) == IF i % 2 = 0 THEN toUpperCase(EntryOf(i).tag) ELSE EntryOf(i).tag
WrittenStart(i) == Opening(EntryOf(i), WrittenName(i))
WrittenStop(i) == Closing(WrittenName(i))

\* The emitter calls and the re-entries of the last pass, inline or block.
AllCalls ==
  {out.calls[k] : k \in DOMAIN out.calls} \cup {blockOut.calls[k] : k \in DOMAIN blockOut.calls}
AllReentries ==
  {out.reentries[k] : k \in DOMAIN out.reentries}
  \cup {blockOut.reentries[k] : k \in DOMAIN blockOut.reentries}
ParamCalls == {c \in AllCalls : IsParamEntry(EntryOf(c.rule))}
TopCalls == {k \in DOMAIN out.calls : out.calls[k].depth = 0}

Span(class, children) == Element("span", <<Attr("class", <<class>>)>>, children)

\* The document is one tag written in upper case around some contents.
UpperDoc(e) == Len(doc) >= 2 /\ doc[1] = OpenUpper(e) /\ doc[Len(doc)] = CloseUpper(e)
Contents == Flatten(SubSeq(doc, 2, Len(doc) - 1))
LowerTree(e) == processInline(OpenLower(e) \o Contents \o CloseLower(e)).nodes

\* C1, as stated: for every inline tag of the catalog and every contents,
\* the document with the tag in upper case yields the tree of the document
\* with the tag in lower case.
C1_AnyContents ==
  \A k \in InlineEntries :
    (phase = "inline" /\ UpperDoc(Catalog[k])) => out.nodes = LowerTree(Catalog[k])

\* The rule matched at the start of the document, and its emitter emitted.
Fired == \E k \in TopCalls : out.calls[k].from = 1 /\ out.calls[k].emitted

\* C1, amended: for every inline tag of the catalog and every contents in
\* which the closing token of the tag occurs in neither spelling, the
\* document with the tag in upper case yields the tree of the document with
\* the tag in lower case when the emitter of the tag emits, and both
\* documents are rendered as the text they are when it does not.
C1_CaseInsensitive ==
  \A k \in InlineEntries :
    (/\ phase = "inline"
     /\ UpperDoc(Catalog[k])
     /\ ~Occurs(CloseLower(Catalog[k]), Contents)
     /\ ~Occurs(CloseUpper(Catalog[k]), Contents))
    => IF Fired THEN out.nodes = LowerTree(Catalog[k])
       ELSE /\ out.nodes = <<Text(TypedText)>>
            /\ LowerTree(Catalog[k])
                 = <<Text(OpenLower(Catalog[k]) \o Contents \o CloseLower(Catalog[k]))>>

\* "[B]x][/B]" was rendered as the bbcode-b span around "x]".
C1_Witness ==
  /\ phase = "inline"
  /\ doc = <<OpenUpper(Catalog[1]), <<"x", "]">>, CloseUpper(Catalog[1])>>
  /\ out.nodes = <<Span("bbcode-b", <<Text(<<"x", "]">>)>>)>>

\* The opening and closing tokens of the inline tags of the catalog, in
\* both spellings, as they are written in a document.
WrittenTags ==
  {[open |-> OpenLower(Catalog[k]), close |-> CloseLower(Catalog[k])] : k \in InlineEntries}
  \cup {[open |-> OpenUpper(Catalog[k]), close |-> CloseUpper(Catalog[k])] : k \in InlineEntries}

\* A tag opens at p and closes after it.
WellFormedAt(text, p) ==
  /\ text[p] = "["
  /\ \E t \in WrittenTags :
       IsPrefixAt(t.open, text, p) /\ OccursFrom(t.close, text, p + Len(t.open))

\* A tag opens at p and does not close after it.
UnterminatedAt(text, p) ==
  /\ text[p] = "["
  /\ \E t \in WrittenTags :
       IsPrefixAt(t.open, text, p) /\ ~OccursFrom(t.close, text, p + Len(t.open))

\* C2, as stated: whenever the start token of an inline rule occurs in the
\* text with no stop token after it, the output is the original text as one
\* text leaf.
C2_TextUnchanged ==
  phase = "inline" =>
    \A p \in 1..Len(TypedText) :
      UnterminatedAt(TypedText, p) => out.nodes = <<Text(TypedText)>>

\* C2, amended: an emitter is only ever called for a start token that has
\* its stop token after it in the text being scanned, and a text in which no
\* tag opens and closes is rendered as the original text in one text leaf.
C2_Unterminated ==
  /\ \A c \in AllCalls :
       /\ IsPrefixAt(WrittenStart(c.rule), c.text, c.from)
       /\ OccursFrom(WrittenStop(c.rule), c.text, c.from + Len(WrittenStart(c.rule)))
  /\ (phase = "inline" /\ doc # <<>>
      /\ \A p \in 1..Len(TypedText) : ~WellFormedAt(TypedText, p))
     => out.nodes = <<Text(TypedText)>>

\* "[b]x" was rendered as itself, without a call of an emitter.
C2_Witness ==
  /\ phase = "inline"
  /\ doc = <<OpenB, <<"x">>>>
  /\ out.nodes = <<Text(<<"[", "b", "]", "x">>)>>
  /\ out.calls = <<>>

HasBracket(s) == \E k \in 1..Len(s) : s[k] = "]"
FirstBracket(s) == MinOrZero({k \in 1..Len(s) : s[k] = "]"})
BeforeBracket(s) == SubSeq(s, 1, FirstBracket(s) - 1)
AfterBracket(s) == SubSeq(s, FirstBracket(s) + 1, Len(s))

\* s with at most one quote character removed at each end.
Unquoted(s) ==
  {SubSeq(s, 1 + a, Len(s) - b) :
     a \in {n \in {0, 1} : n = 1 => (Len(s) >= 1 /\ IsQuote(s[1]))},
     b \in {n \in {0, 1} : n = 1 => (Len(s) >= 2 /\ IsQuote(s[Len(s)]))}}

\* C3: for every span of a parameterized rule that has a "]", the user
\* emitter is called with the text before the first "]", less at most one
\* layer of quotes, as param, and with all the text after it as contents
\* (processed or not), empty params and line breaks in the contents included.
C3_Extraction ==
  \A c \in ParamCalls :
    HasBracket(c.span) =>
      /\ c.user
      /\ c.param \in Unquoted(BeforeBracket(c.span))
      /\ \/ c.arg = RawArg(AfterBracket(c.span))
         \/ c.arg = NodesArg(processInline(AfterBracket(c.span)).nodes)

\* C4: when the span of a parameterized rule has no "]", the synthetic
\* emitter emits nothing and does not call the user emitter, and the matched
\* text, from start token to stop token, is literal text of the output.
C4_Fallback ==
  \A c \in ParamCalls :
    ~HasBracket(c.span) =>
      /\ ~c.emitted
      /\ ~c.user
      /\ (phase = "inline" /\ c.depth = 0) =>
           \E n \in DOMAIN out.nodes :
             /\ IsText(out.nodes[n])
             /\ Occurs(SubSeq(c.text, c.from, c.to - 1), out.nodes[n].value)

\* "[url=a[/url]" was matched, declined and rendered as itself.
C4_Witness ==
  /\ phase = "inline"
  /\ doc = <<OpenUrlParam, <<"a">>, CloseUrl>>
  /\ Len(out.calls) = 1
  /\ ~out.calls[1].emitted
  /\ out.nodes = <<Text(OpenUrlParam \o <<"a">> \o CloseUrl)>>

\* C5: an emitter registered through rawBBCode is handed the exact text of
\* the span, one registered through replaceBBCode the result of processInline
\* on the span; the emitter of replaceBBCodeParamsRaw is handed the end of
\* the span as text, that of replaceBBCodeParams the result of processInline
\* on it.  "[noparse][b]x[/b][/noparse]" yields the text "[b]x[/b]";
\* "[b][i]x[/i][/b]" yields a bbcode-b span around a bbcode-i span around "x".
C5_RawOrProcessed ==
  /\ \A c \in AllCalls :
       /\ EntryOf(c.rule).fn = "rawBBCode" => (c.user /\ c.arg = RawArg(c.span))
       /\ EntryOf(c.rule).fn = "replaceBBCode"
          => (c.user /\ c.arg = NodesArg(processInline(c.span).nodes))
       /\ (EntryOf(c.rule).fn = "replaceBBCodeParamsRaw" /\ c.user)
          => (c.arg.raw /\ \E j \in 1..(Len(c.span) + 1) :
                             c.arg.text = SubSeq(c.span, j, Len(c.span)))
       /\ (EntryOf(c.rule).fn = "replaceBBCodeParams" /\ c.user)
          => (~c.arg.raw /\ \E j \in 1..(Len(c.span) + 1) :
                c.arg.nodes = processInline(SubSeq(c.span, j, Len(c.span))).nodes)
  /\ (phase = "inline" /\ doc = <<OpenNoparse, OpenB \o <<"x">> \o CloseB, CloseNoparse>>)
     => out.nodes = <<Text(OpenB \o <<"x">> \o CloseB)>>
  /\ (phase = "inline" /\ doc = <<OpenB, OpenI \o <<"x">> \o CloseI, CloseB>>)
     => out.nodes = <<Span("bbcode-b", <<Span("bbcode-i", <<Text(<<"x">>)>>)>>)>>

\* "[noparse][b]x[/b][/noparse]" was rendered, its emitter handed the text.
C5_Witness ==
  /\ phase = "inline"
  /\ doc = <<OpenNoparse, OpenB \o <<"x">> \o CloseB, CloseNoparse>>
  /\ Len(out.calls) = 1
  /\ out.calls[1].arg = RawArg(OpenB \o <<"x">> \o CloseB)

\* The li children the list should have: one for each sub-line that begins
\* with "[*]" and whose remainder is processed into something.
RECURSIVE ExpectedItems(_)
ExpectedItems(lines) ==
  IF lines = <<>> THEN <<>>
  ELSE (IF /\ IsPrefixAt(ListMarker, Head(lines), 1)
           /\ processInline(SubSeq(Head(lines), 4, Len(Head(lines)))).nodes # <<>>
        THEN <<Element("li", <<>>,
                       processInline(SubSeq(Head(lines), 4, Len(Head(lines)))).nodes)>>
        ELSE <<>>)
       \o ExpectedItems(Tail(lines))

\* C6: the list emitter returns ul, or ol with the captured type, with one
\* li, in order, for each sub-line that begins with "[*]" and whose remainder
\* gives a non-empty result, and nothing for any other sub-line.
C6_ListItems ==
  (phase = "block" /\ blockIn.rule = 167) =>
    blockOut.nodes =
      <<IF blockIn.listType = <<>>
        THEN Element("ul", <<>>, ExpectedItems(SubLines(blockIn.contents)))
        ELSE Element("ol", <<Attr("type", blockIn.listType)>>,
                     ExpectedItems(SubLines(blockIn.contents)))>>

RECURSIVE HasFontSize(_)
HasFontSize(nodes) ==
  \E k \in DOMAIN nodes :
    \/ nodes[k].tag = "font" /\ \E a \in DOMAIN nodes[k].attrs : nodes[k].attrs[a].name = "size"
    \/ HasFontSize(nodes[k].children)

\* C7: no emitter is called for a rule registered after another rule with
\* the same start token; "[size=3]x[/size]" yields the span of class
\* bbcode-size-3, and no output has a font element with a size attribute.
C7_FirstRegistered ==
  /\ \A c \in AllCalls :
       \A j \in 1..(c.rule - 1) : inlineRules[j].start # inlineRules[c.rule].start
  /\ (phase = "inline" /\ doc = <<OpenSizeParam, <<"3", "]", "x">>, CloseSize>>)
     => out.nodes = <<Element("span", <<Attr("class", <<"bbcode-size-", "3">>)>>,
                              <<Text(<<"x">>)>>)>>
  /\ ~HasFontSize(out.nodes)
  /\ ~HasFontSize(blockOut.nodes)

\* "[size=3]x[/size]" was rendered by the first registration of size.
C7_Witness ==
  /\ phase = "inline"
  /\ doc = <<OpenSizeParam, <<"3", "]", "x">>, CloseSize>>
  /\ Len(out.calls) = 1
  /\ EntryOf(out.calls[1].rule).line = 103
  /\ out.calls[1].emitted

\* C8: the object handed to the registry with each rule still has the start
\* and stop tokens it had when it was handed over.
C8_Immutable ==
  \A i \in DOMAIN inlineRules :
    /\ heap[inlineRules[i].args].start = inlineRules[i].start
    /\ heap[inlineRules[i].args].stop = inlineRules[i].stop

\* C9: the top-level matches of a text come in textual order, none starts
\* inside the span another one consumed, every tag that opens and closes in
\* the text lies in a matched span, and "[b]a[/b] and [b]c[/b]" yields a
\* bbcode-b span, the text " and " and a second bbcode-b span.
C9_Siblings ==
  /\ \A j, k \in TopCalls :
       j < k => /\ out.calls[j].from < out.calls[k].from
                /\ out.calls[j].emitted => out.calls[j].to <= out.calls[k].from
  /\ \A k \in TopCalls : out.calls[k].text = TypedText
  /\ phase = "inline" =>
       \A p \in 1..Len(TypedText) :
         WellFormedAt(TypedText, p)
         => \E k \in TopCalls : out.calls[k].from <= p /\ p < out.calls[k].to
  /\ (phase = "inline"
      /\ doc = <<OpenB \o <<"a">> \o CloseB, And, OpenB \o <<"c">> \o CloseB>>)
     => out.nodes = <<Span("bbcode-b", <<Text(<<"a">>)>>), Text(And),
                      Span("bbcode-b", <<Text(<<"c">>)>>)>>

\* "[b]a[/b] and [b]c[/b]" was rendered with two top-level matches.
C9_Witness ==
  /\ phase = "inline"
  /\ doc = <<OpenB \o <<"a">> \o CloseB, And, OpenB \o <<"c">> \o CloseB>>
  /\ Cardinality(TopCalls) = 2
  /\ Len(out.nodes) = 3

\* C10: every re-entry of processInline, by the engine on a span, by
\* replaceBBCodeParams on its contents or by the list emitter on a
\* remainder, is on a text strictly shorter than the text whose match
\* triggered it, and its nesting depth is less than the length of the
\* document.
C10_Termination ==
  \A r \in AllReentries : r.child < r.parent /\ r.depth + 1 <= Len(TypedText)

\* A list item with a tag in it was rendered: the list emitter re-entered
\* on the remainder, and the engine on the span of the tag.
C10_Witness ==
  /\ phase = "block"
  /\ \E r \in AllReentries : r.by = "list" /\ r.depth = 0
  /\ \E r \in AllReentries : r.by = "inlineBetween" /\ r.depth = 1

====
